---- MODULE Spec2Model ----
(***************************************************************************)
(* Model of scripts/assign_tasks.py: the TaskAssigner that scores open     *)
(* issues against interns, orders them by priority and assigns them        *)
(* greedily under per-intern capacity (assign_tasks), and its read-only    *)
(* variant (suggest_assignments).                                          *)
(*                                                                         *)
(* Scores are Python floats built from the summands 2.0, 1.5, 1.0 and 0.5; *)
(* the model keeps them as integers in HALF POINTS (score * 2), so 6.5 is  *)
(* 13 and the initial best_score of -1 is -2.  Every comparison of the     *)
(* code (score > best_score, best_score > 0) is preserved by the scaling.  *)
(***************************************************************************)
EXTENDS Integers, Sequences, FiniteSets, TLC

\* ------------------------------------------------------------------ bounds
\* Most open, unassigned issues the tracker holds at construction.
MaxIssues == 2
\* Most open issues or pull requests already assigned to one intern.
MaxExtra == 3
\* Most calls (assign_tasks or suggest_assignments) made on one TaskAssigner.
MaxCalls == 2

\* ------------------------------------------------------- program constants
\* Points per matching skill (2.0), in half points.
SkillPoints == 4
\* Points per matching preference (1.5), in half points.
PreferencePoints == 3
\* High-priority bonus (1.0), in half points.
HighPriorityPoints == 2
\* Medium-priority bonus (0.5), in half points.
MediumPriorityPoints == 1
\* Good-first-issue bonus (1.0), in half points.
GoodFirstIssuePoints == 2
\* best_score = -1 before the interns are scanned, in half points.
InitialBestScore == -2
\* suggestions[:3]
TopN == 3
\* --max-assignments default
DefaultMaxAssignments == 10

\* Python's None (best_intern = None).
None == "<None>"

\* ------------------------------------------------------------ string helpers
RECURSIVE SeqSum(_)
SeqSum(s) == IF s = <<>> THEN 0 ELSE Head(s) + SeqSum(Tail(s))

\* One character of str.lower().
LowerChar(c) ==
    CASE c = "A" -> "a" [] c = "B" -> "b" [] c = "C" -> "c" [] c = "D" -> "d"
      [] c = "E" -> "e" [] c = "F" -> "f" [] c = "G" -> "g" [] c = "H" -> "h"
      [] c = "I" -> "i" [] c = "J" -> "j" [] c = "K" -> "k" [] c = "L" -> "l"
      [] c = "M" -> "m" [] c = "N" -> "n" [] c = "O" -> "o" [] c = "P" -> "p"
      [] c = "Q" -> "q" [] c = "R" -> "r" [] c = "S" -> "s" [] c = "T" -> "t"
      [] c = "U" -> "u" [] c = "V" -> "v" [] c = "W" -> "w" [] c = "X" -> "x"
      [] c = "Y" -> "y" [] c = "Z" -> "z" [] OTHER -> c

\* str.lower(): every character lower-cased.
RECURSIVE Lower(_)
Lower(s) ==
    IF Len(s) = 0 THEN ""
    ELSE LowerChar(SubSeq(s, 1, 1)) \o Lower(SubSeq(s, 2, Len(s)))

\* Python's `sub in text` on two strings: sub occurs as a substring.
StrContains(text, sub) ==
    \E i \in 1..(Len(text) - Len(sub) + 1) : SubSeq(text, i, i + Len(sub) - 1) = sub

\* Python's `x in list`.
InList(x, list) == \E i \in 1..Len(list) : list[i] = x

\* dict.get(key, default)
DictGet(d, key, default) == IF key \in DOMAIN d THEN d[key] ELSE default

\* ------------------------------------------------------------ intern directory
\* self.interns.items() iterates in insertion order.
InternIds == <<"intern1", "intern2", "intern3">>

Interns == {InternIds[k] : k \in 1..Len(InternIds)}

\* The dictionary _load_interns returns, without the mutable current_tasks.
InternConfig ==
    [w \in Interns |->
        CASE w = "intern1" ->
               [username |-> "intern1", name |-> "Intern One",
                skills |-> <<"python", "ai", "lectures">>,
                preferences |-> <<"lecture", "documentation">>,
                max_tasks |-> 3]
          [] w = "intern2" ->
               [username |-> "intern2", name |-> "Intern Two",
                skills |-> <<"python", "workshops", "testing">>,
                preferences |-> <<"workshop", "assignment">>,
                max_tasks |-> 3]
          [] w = "intern3" ->
               [username |-> "intern3", name |-> "Intern Three",
                skills |-> <<"python", "ci-cd", "security">>,
                preferences |-> <<"documentation", "enhancement">>,
                max_tasks |-> 2]]

\* current_tasks of every intern right after _load_interns.
InitialCurrentTasks == [w \in Interns |-> 0]

\* One intern dictionary as calculate_task_score reads it.
InternDict(w, load) ==
    [skills |-> InternConfig[w].skills,
     preferences |-> InternConfig[w].preferences,
     max_tasks |-> InternConfig[w].max_tasks,
     current_tasks |-> load]

\* ------------------------------------------------------------- issue catalogue
\* The issues a tracker may hold: labels as the tracker spells them, the body
\* or no body at all (has_body = FALSE is issue.body = None).
IssueCatalog ==
    <<[title |-> "Intro lecture", labels |-> <<"lecture", "high-priority">>,
       has_body |-> TRUE, body |-> "intro to python and ai"],
      [title |-> "Typo", labels |-> <<"good first issue", "medium-priority">>,
       has_body |-> TRUE, body |-> "Fix a Python typo"],
      [title |-> "Question", labels |-> <<"question">>,
       has_body |-> FALSE, body |-> ""],
      [title |-> "Workshop", labels |-> <<"High-Priority", "workshop">>,
       has_body |-> TRUE, body |-> ""],
      [title |-> "Slides", labels |-> <<"lecture", "low-priority">>,
       has_body |-> FALSE, body |-> ""]>>

IssueIds == 1..Len(IssueCatalog)

\* ------------------------------------------------------- calculate_task_score
\* issue_labels = [label.name.lower() for label in issue.labels]
issue_labels(issue) == [i \in 1..Len(issue.labels) |-> Lower(issue.labels[i])]

\* issue_body = issue.body.lower() if issue.body else ""
issue_body(issue) ==
    IF issue.has_body /\ issue.body # "" THEN Lower(issue.body) ELSE ""

\* Mutant: a skill found in the body and in the labels is counted twice.
SkillScoreCountsTwice(issue, intern) ==
    SeqSum([i \in 1..Len(intern.skills) |->
        (IF StrContains(issue_body(issue), intern.skills[i]) THEN SkillPoints ELSE 0)
        + (IF InList(intern.skills[i], issue_labels(issue)) THEN SkillPoints ELSE 0)])

\* for skill in intern["skills"]: +2.0 when in the body or the labels
SkillScore(issue, intern) ==
    SeqSum([i \in 1..Len(intern.skills) |->
        IF StrContains(issue_body(issue), intern.skills[i])
           \/ InList(intern.skills[i], issue_labels(issue))
        THEN SkillPoints ELSE 0])

\* for preference in intern["preferences"]: +1.5 when in the labels
PreferenceScore(issue, intern) ==
    SeqSum([i \in 1..Len(intern.preferences) |->
        IF InList(intern.preferences[i], issue_labels(issue))
        THEN PreferencePoints ELSE 0])

\* Mutant: a low-priority issue is penalised by half a point.
PriorityBonusPenalisesLow(issue) ==
    IF InList("high-priority", issue_labels(issue)) THEN HighPriorityPoints
    ELSE IF InList("medium-priority", issue_labels(issue)) THEN MediumPriorityPoints
    ELSE IF InList("low-priority", issue_labels(issue)) THEN 0 - MediumPriorityPoints
    ELSE 0

\* if "high-priority" ... elif "medium-priority" ...
PriorityBonus(issue) ==
    IF InList("high-priority", issue_labels(issue)) THEN HighPriorityPoints
    ELSE IF InList("medium-priority", issue_labels(issue)) THEN MediumPriorityPoints
    ELSE 0

\* Mutant: the bonus is given whatever the intern's load.
GoodFirstIssueBonusAnyLoad(issue, intern) ==
    IF InList("good first issue", issue_labels(issue)) THEN GoodFirstIssuePoints ELSE 0

\* "good first issue" in issue_labels and intern["current_tasks"] == 0
GoodFirstIssueBonus(issue, intern) ==
    IF InList("good first issue", issue_labels(issue)) /\ intern.current_tasks = 0
    THEN GoodFirstIssuePoints ELSE 0

calculate_task_score(issue, intern) ==
    SkillScore(issue, intern) + PreferenceScore(issue, intern)
        + PriorityBonus(issue) + GoodFirstIssueBonus(issue, intern)

\* No load of the model exceeds this: the tracker's count plus every issue.
MaxLoad == MaxExtra + MaxIssues

\* calculate_task_score of every catalogue issue, intern and load, computed
\* once: ScoreOf[i][w][c] is calculate_task_score(issue i, intern w at load c).
ScoreOf ==
    [i \in IssueIds |-> [w \in Interns |-> [c \in 0..MaxLoad |->
        calculate_task_score(IssueCatalog[i], InternDict(w, c))] @@ <<>>] @@ <<>>] @@ <<>>

\* ------------------------------------------------------------------- state
VARIABLES
    repo,             \* tracker: the open issues (not pull requests), in listing order
    assignees,        \* tracker: issue -> set of logins assigned to it
    extra,            \* tracker: login -> other open issues / pull requests assigned to it
    current_tasks,    \* self.interns[w]["current_tasks"]
    pc,               \* "idle" | "assign" | "suggest": the call in progress; "error": it raised
    op,               \* "none" | "assign" | "suggest": the latest call started
    calls,            \* calls started on this TaskAssigner
    workload,         \* the dictionary get_intern_workload returned to the current call
    queue,            \* unassigned_issues of the current call (sorted by assign_tasks)
    idx,              \* position of the for loop in queue (1-based)
    assignments_made, \* assignments_made of assign_tasks
    max_assignments,  \* the argument of assign_tasks
    log,              \* history: one record per loop iteration of the current assign_tasks
    suggested,        \* history: one record per issue printed by the current suggest_assignments
    first,            \* history: the outcome of an earlier assign_tasks run, kept to compare
    scored,           \* the latest direct call of calculate_task_score and its result
    raised            \* "none", or the fetch whose exception ended the latest call

vars == <<repo, assignees, extra, current_tasks, pc, op, calls, workload, queue,
          idx, assignments_made, max_assignments, log, suggested, first, scored, raised>>

\* No earlier run is kept.
NoFirst == [done |-> FALSE, log |-> <<>>, loads |-> InitialCurrentTasks, max |-> 0]

\* calculate_task_score has not been called directly.
NotScored == [issue |-> 0, worker |-> 0, load |-> 0, value |-> 0]

\* The values --max-assignments is given in the model.
MaxAssignmentsValues == {0, 1, DefaultMaxAssignments}

\* Sequences of distinct issues, at most n long.
DistinctSeqs(n) ==
    UNION {{s \in [1..k -> IssueIds] : \A i, j \in 1..k : i # j => s[i] # s[j]}
           : k \in 0..n}

EmptyDict == [k \in {} |-> 0]

\* ------------------------------------------------------------- tracker reads
\* Mutant: the assignee test is forgotten, every open issue is returned.
get_all_issues(rp, asg) == rp

\* get_unassigned_issues: open issues with no assignee that are not pull requests.
get_unassigned_issues(rp, asg) ==
    SelectSeq(rp, LAMBDA i : asg[i] = {})

\* Open issues of the listing assigned to login.
AssignedCount(rp, asg, login) ==
    Cardinality({k \in 1..Len(rp) : login \in asg[rp[k]]})

\* get_intern_workload: login -> number of open issues assigned to it; a login
\* with none has no key.
get_intern_workload(rp, asg, ext) ==
    LET count(l) == ext[l] + AssignedCount(rp, asg, l)
    IN  [l \in {x \in Interns : count(x) > 0} |-> count(l)]

\* Mutant: only the interns the workload names are updated, the others keep
\* the load an earlier call left (the default of workload.get is forgotten).
SeedLoadsPresentOnly(wl) ==
    [w \in Interns |-> DictGet(wl, InternConfig[w].username, current_tasks[w])]

\* intern["current_tasks"] = workload.get(intern["username"], 0), for every intern
SeedLoads(wl) == [w \in Interns |-> DictGet(wl, InternConfig[w].username, 0)]

\* ------------------------------------------------------------ priority order
priority_order == <<"high-priority", "medium-priority", "low-priority">>

\* list.index (0-based) of an element that is in the list.
ListIndex(list, x) == (CHOOSE i \in 1..Len(list) : list[i] = x
                          /\ \A j \in 1..(i - 1) : list[j] # x) - 1

SetMin(S) == CHOOSE x \in S : \A y \in S : x <= y

\* The sort key: min([priority_order.index(label.name) ...] + [len(priority_order)])
PriorityKey(issue) ==
    SetMin({ListIndex(priority_order, issue.labels[i]) :
              i \in {j \in 1..Len(issue.labels) : InList(issue.labels[j], priority_order)}}
           \cup {Len(priority_order)})

\* The sort key of every catalogue issue, computed once.
KeyOf == [i \in IssueIds |-> PriorityKey(IssueCatalog[i])] @@ <<>>

\* Mutant: an unstable insertion, x goes before the elements of equal key.
RECURSIVE InsertByKeyUnstable(_, _)
InsertByKeyUnstable(q, x) ==
    IF q = <<>> THEN <<x>>
    ELSE IF KeyOf[x] <= KeyOf[Head(q)]
         THEN <<x>> \o q
         ELSE <<Head(q)>> \o InsertByKeyUnstable(Tail(q), x)

\* Insert issue id x into the key-ordered q behind every element whose key is
\* not greater: list.sort is stable.
RECURSIVE InsertByKey(_, _)
InsertByKey(q, x) ==
    IF q = <<>> THEN <<x>>
    ELSE IF KeyOf[x] < KeyOf[Head(q)]
         THEN <<x>> \o q
         ELSE <<Head(q)>> \o InsertByKey(Tail(q), x)

RECURSIVE SortFrom(_, _)
SortFrom(sorted, rest) ==
    IF rest = <<>> THEN sorted
    ELSE SortFrom(InsertByKey(sorted, Head(rest)), Tail(rest))

\* unassigned_issues.sort(key=...)
SortByPriority(issues) == SortFrom(<<>>, issues)

\* ------------------------------------------------------------ the assign loop
\* Mutant: the break tests > instead of >=.
LimitReachedLate(made, max) == made > max

\* if assignments_made >= max_assignments: break
LimitReached(made, max) == made >= max

\* Mutant: the capacity test is off by one (> instead of >=).
IsFullOffByOne(intern) == intern.current_tasks > intern.max_tasks

\* if intern["current_tasks"] >= intern["max_tasks"]: continue
IsFull(intern) == intern.current_tasks >= intern.max_tasks

\* Mutant: a tie replaces the best so far (>= instead of >), the last seen wins.
BeatsOrTies(score, best_score) == score >= best_score

\* if score > best_score
Beats(score, best_score) == score > best_score

\* The scan over self.interns.items() from position k on.
RECURSIVE ScanInterns(_, _, _, _, _)
ScanInterns(issue, loads, k, best_intern, best_score) ==
    IF k > Len(InternIds) THEN [intern |-> best_intern, score |-> best_score]
    ELSE LET w == InternIds[k]
             intern == InternDict(w, loads[w])
             score == ScoreOf[issue][w][loads[w]]
         IN  IF IsFull(intern)
             THEN ScanInterns(issue, loads, k + 1, best_intern, best_score)
             ELSE IF Beats(score, best_score)
                  THEN ScanInterns(issue, loads, k + 1, w, score)
                  ELSE ScanInterns(issue, loads, k + 1, best_intern, best_score)

\* best_intern, best_score after the scan of one issue.
FindBest(issue, loads) == ScanInterns(issue, loads, 1, None, InitialBestScore)

\* Mutant: a best score of 0 is accepted (>= 0 instead of > 0).
ShouldAssignZero(best) == best.intern # None /\ best.score >= 0

\* if best_intern and best_score > 0
ShouldAssign(best) == best.intern # None /\ best.score > 0

\* Mutant: the increment of the load is forgotten.
RecordLoadForgotten(loads, w) == loads

\* best_intern["current_tasks"] += 1
RecordLoad(loads, w) == [loads EXCEPT ![w] = @ + 1]

\* Mutant: the load is incremented before add_to_assignees and not rolled back.
CommitLoadsNoRollback(loads, w, ok) == RecordLoad(loads, w)

\* The loads after the try block for the chosen intern w: the increment follows
\* add_to_assignees, so an exception (ok = FALSE) skips it.
CommitLoads(loads, w, ok) == IF ok THEN RecordLoad(loads, w) ELSE loads

\* Mutant: the count is incremented before add_to_assignees, so a commit that
\* raises is counted too.
CommitCountAttempts(made, ok) == made + 1

\* assignments_made after the try block.
CommitCount(made, ok) == IF ok THEN made + 1 ELSE made

\* Mutant: the loop does not move on, and handles the same issue again.
NextIssueRepeats(i) == i

\* The for loop moves on to the next issue.
NextIssue(i) == i + 1

\* ----------------------------------------------------------------- actions
Init ==
    /\ repo \in DistinctSeqs(MaxIssues)
    /\ assignees = [i \in IssueIds |-> {}]
    /\ extra \in [Interns -> 0..MaxExtra]
    /\ current_tasks = InitialCurrentTasks
    /\ pc = "idle"
    /\ op = "none"
    /\ calls = 0
    /\ workload = EmptyDict
    /\ queue = <<>>
    /\ idx = 1
    /\ assignments_made = 0
    /\ max_assignments = DefaultMaxAssignments
    /\ log = <<>>
    /\ suggested = <<>>
    /\ first = NoFirst
    /\ scored = NotScored
    /\ raised = "none"

\* assign_tasks up to the loop: fetch the workload, seed every intern, fetch the
\* unassigned issues, return when there are none, else sort them.
StartAssign(m) ==
    /\ pc = "idle"
    /\ LET wl == get_intern_workload(repo, assignees, extra)
           unassigned_issues == get_unassigned_issues(repo, assignees)
       IN  /\ workload' = wl
           /\ current_tasks' = SeedLoads(wl)
           /\ queue' = SortByPriority(unassigned_issues)
           /\ pc' = IF unassigned_issues = <<>> THEN "idle" ELSE "assign"
    /\ op' = "assign"
    /\ calls' = calls + 1
    /\ max_assignments' = m
    /\ idx' = 1
    /\ assignments_made' = 0
    /\ log' = <<>>
    /\ suggested' = <<>>
    /\ UNCHANGED <<raised, repo, assignees, extra, first, scored>>

\* One iteration of the for loop; ok is whether add_to_assignees succeeds
\* (it raises GithubException otherwise).
AssignStep(ok) ==
    /\ pc = "assign"
    /\ idx <= Len(queue)
    /\ ~LimitReached(assignments_made, max_assignments)
    /\ LET i == queue[idx]
           best == FindBest(i, current_tasks)
           attempt == ShouldAssign(best)
           result == IF ~attempt THEN "skipped" ELSE IF ok THEN "assigned" ELSE "failed"
       IN  /\ assignees' = IF attempt /\ ok
                           THEN [assignees EXCEPT ![i] = @ \cup {InternConfig[best.intern].username}]
                           ELSE assignees
           /\ current_tasks' = IF attempt
                               THEN CommitLoads(current_tasks, best.intern, ok)
                               ELSE current_tasks
           /\ assignments_made' = IF attempt
                                  THEN CommitCount(assignments_made, ok)
                                  ELSE assignments_made
           /\ log' = Append(log, [issue |-> i, intern |-> best.intern,
                                  score |-> best.score, result |-> result,
                                  before |-> current_tasks,
                                  made_before |-> assignments_made])
    /\ idx' = NextIssue(idx)
    /\ UNCHANGED <<raised, repo, extra, pc, op, calls, workload, queue, max_assignments, suggested, first, scored>>

\* The loop ends (the list is exhausted, or the break) and assign_tasks returns.
AssignReturn ==
    /\ pc = "assign"
    /\ (idx > Len(queue) \/ LimitReached(assignments_made, max_assignments))
    /\ pc' = "idle"
    /\ UNCHANGED <<raised, repo, assignees, extra, current_tasks, op, calls, workload, queue,
                   idx, assignments_made, max_assignments, log, suggested, first, scored>>

\* ------------------------------------------------------------ suggest mode
\* Mutant: the capacity test of suggest mode is off by one (<= instead of <).
HasSpareOffByOne(intern) == intern.current_tasks <= intern.max_tasks

\* if intern["current_tasks"] < intern["max_tasks"]: suggestions.append(...)
HasSpare(intern) == intern.current_tasks < intern.max_tasks

\* The (intern, score) pairs appended for one issue, from position k on.
RECURSIVE CollectSuggestions(_, _, _)
CollectSuggestions(issue, loads, k) ==
    IF k > Len(InternIds) THEN <<>>
    ELSE LET w == InternIds[k]
             intern == InternDict(w, loads[w])
             score == ScoreOf[issue][w][loads[w]]
         IN  (IF HasSpare(intern) THEN <<[intern |-> w, score |-> score]>> ELSE <<>>)
                 \o CollectSuggestions(issue, loads, k + 1)

\* Insert x behind every element whose score is not smaller: sort(reverse=True)
\* keeps equal elements in their original order.
RECURSIVE InsertByScore(_, _)
InsertByScore(q, x) ==
    IF q = <<>> THEN <<x>>
    ELSE IF x.score > Head(q).score
         THEN <<x>> \o q
         ELSE <<Head(q)>> \o InsertByScore(Tail(q), x)

RECURSIVE SortByScoreFrom(_, _)
SortByScoreFrom(sorted, rest) ==
    IF rest = <<>> THEN sorted
    ELSE SortByScoreFrom(InsertByScore(sorted, Head(rest)), Tail(rest))

\* suggestions.sort(key=lambda x: x[1], reverse=True)
SortByScore(suggestions) == SortByScoreFrom(<<>>, suggestions)

\* suggestions[:3]
TopSuggestions(suggestions) ==
    SubSeq(suggestions, 1, IF Len(suggestions) < TopN THEN Len(suggestions) ELSE TopN)

\* Mutant: suggest mode records its first candidate as assign_tasks would.
SuggestLoadsRecording(loads, wl) == RecordLoad(SeedLoads(wl), InternIds[1])

\* The loads suggest_assignments leaves after the scan of one issue:
\* intern["current_tasks"] = workload.get(intern["username"], 0) for every intern.
SuggestLoads(loads, wl) == SeedLoads(wl)

\* Mutant: suggest mode commits its first candidate as assign_tasks would.
SuggestAssigneesCommitting(asg, i, candidates) ==
    IF candidates = <<>> THEN asg
    ELSE [asg EXCEPT ![i] = @ \cup {InternConfig[candidates[1].intern].username}]

\* The tracker's assignees after suggest_assignments has handled issue i: the
\* loop body only prints, it has no add_to_assignees.
SuggestAssignees(asg, i, candidates) == asg

\* suggest_assignments up to the loop: fetch the workload and the unassigned issues.
StartSuggest ==
    /\ pc = "idle"
    /\ workload' = get_intern_workload(repo, assignees, extra)
    /\ queue' = get_unassigned_issues(repo, assignees)
    /\ pc' = "suggest"
    /\ op' = "suggest"
    /\ calls' = calls + 1
    /\ idx' = 1
    /\ assignments_made' = 0
    /\ max_assignments' = DefaultMaxAssignments
    /\ log' = <<>>
    /\ suggested' = <<>>
    /\ UNCHANGED <<raised, repo, assignees, extra, current_tasks, first, scored>>

\* One iteration of the loop of suggest_assignments: every intern's load is
\* set from the fetched workload, scored, and the top candidates are printed.
SuggestStep ==
    /\ pc = "suggest"
    /\ idx <= Len(queue)
    /\ LET i == queue[idx]
           loads == SuggestLoads(current_tasks, workload)
           candidates == TopSuggestions(SortByScore(CollectSuggestions(i, loads, 1)))
       IN  /\ current_tasks' = loads
           /\ assignees' = SuggestAssignees(assignees, i, candidates)
           /\ suggested' = Append(suggested,
                  [issue |-> i, candidates |-> candidates, before |-> current_tasks])
    /\ idx' = NextIssue(idx)
    /\ UNCHANGED <<raised, repo, extra, pc, op, calls, workload, queue,
                   assignments_made, max_assignments, log, first, scored>>

\* suggest_assignments returns.
SuggestReturn ==
    /\ pc = "suggest"
    /\ idx > Len(queue)
    /\ pc' = "idle"
    /\ UNCHANGED <<raised, repo, assignees, extra, current_tasks, op, calls, workload, queue,
                   idx, assignments_made, max_assignments, log, suggested, first, scored>>

\* ------------------------------------------------------------ the program
\* main(): one TaskAssigner is created and, on it, either
\* assign_tasks(args.max_assignments) or suggest_assignments is called once.
MainAssign(m) == op = "none" /\ StartAssign(m)

MainSuggest == op = "none" /\ StartSuggest

Next ==
    \/ \E m \in MaxAssignmentsValues : MainAssign(m)
    \/ \E ok \in BOOLEAN : AssignStep(ok)
    \/ AssignReturn
    \/ MainSuggest
    \/ SuggestStep
    \/ SuggestReturn

Spec == Init /\ [][Next]_vars

\* ------------------------------------------------- one TaskAssigner, reused
\* The class used as a library: up to MaxCalls calls, in any order, on one
\* TaskAssigner, each started when the one before has returned.
ReuseAssign(m) == calls < MaxCalls /\ StartAssign(m)

ReuseSuggest == calls < MaxCalls /\ StartSuggest

ReuseNext ==
    \/ \E m \in MaxAssignmentsValues : ReuseAssign(m)
    \/ \E ok \in BOOLEAN : AssignStep(ok)
    \/ AssignReturn
    \/ ReuseSuggest
    \/ SuggestStep
    \/ SuggestReturn

SpecReuse == Init /\ [][ReuseNext]_vars

\* ------------------------------------------- the tracker fails to answer
\* The fetches of assign_tasks, in the order it makes them.
Fetches == {"workload", "issues"}

\* Mutant: the exception of a fetch is swallowed and the call carries on.
FetchErrorSwallowed(fetch) == "assign"

\* Where the call is after a fetch raised: neither get_intern_workload,
\* get_unassigned_issues nor assign_tasks catches, so the call has ended.
AfterFetchError(fetch) == "error"

\* assign_tasks when get_intern_workload (line 108) or get_unassigned_issues
\* (line 115) raises: in the second case the interns are already seeded.
StartAssignRaises(m, fetch) ==
    /\ pc = "idle"
    /\ LET wl == get_intern_workload(repo, assignees, extra)
       IN  /\ workload' = IF fetch = "issues" THEN wl ELSE EmptyDict
           /\ current_tasks' = IF fetch = "issues" THEN SeedLoads(wl) ELSE current_tasks
    /\ raised' = fetch
    /\ pc' = AfterFetchError(fetch)
    /\ op' = "assign"
    /\ calls' = calls + 1
    /\ max_assignments' = m
    /\ queue' = <<>>
    /\ idx' = 1
    /\ assignments_made' = 0
    /\ log' = <<>>
    /\ suggested' = <<>>
    /\ UNCHANGED <<repo, assignees, extra, first, scored>>

\* main() with a tracker that may fail to answer a fetch.
FaultAssign(m, fetch) == op = "none" /\ StartAssignRaises(m, fetch)

FaultNext ==
    \/ \E m \in MaxAssignmentsValues : MainAssign(m)
    \/ \E m \in MaxAssignmentsValues : \E fetch \in Fetches : FaultAssign(m, fetch)
    \/ \E ok \in BOOLEAN : AssignStep(ok)
    \/ AssignReturn
    \/ MainSuggest
    \/ SuggestStep
    \/ SuggestReturn

SpecFaults == Init /\ [][FaultNext]_vars

\* --------------------------------------------- calculate_task_score, directly
\* The issues calculate_task_score is called on directly: the catalogue, an
\* issue naming a skill in a label and in its body, and an issue carrying both
\* priority labels.
ScoreIssues ==
    IssueCatalog \o
    <<[title |-> "Port", labels |-> <<"Python", "testing">>,
       has_body |-> TRUE, body |-> "python tests, PYTHON testing"],
      [title |-> "Triage", labels |-> <<"high-priority", "medium-priority">>,
       has_body |-> FALSE, body |-> ""]>>

\* The intern dictionaries it is called on: the three of _load_interns and the
\* two workers A and B of the scoring scenario.
ScoreWorkers ==
    <<[name |-> "intern1", skills |-> InternConfig["intern1"].skills,
       preferences |-> InternConfig["intern1"].preferences,
       max_tasks |-> InternConfig["intern1"].max_tasks],
      [name |-> "intern2", skills |-> InternConfig["intern2"].skills,
       preferences |-> InternConfig["intern2"].preferences,
       max_tasks |-> InternConfig["intern2"].max_tasks],
      [name |-> "intern3", skills |-> InternConfig["intern3"].skills,
       preferences |-> InternConfig["intern3"].preferences,
       max_tasks |-> InternConfig["intern3"].max_tasks],
      [name |-> "A", skills |-> <<"python", "ai">>, preferences |-> <<"lecture">>,
       max_tasks |-> InternConfig["intern1"].max_tasks],
      [name |-> "B", skills |-> <<"testing">>, preferences |-> <<"workshop">>,
       max_tasks |-> InternConfig["intern1"].max_tasks]>>

ScoreInit ==
    /\ repo = <<>>
    /\ assignees = [i \in IssueIds |-> {}]
    /\ extra = [w \in Interns |-> 0]
    /\ current_tasks = InitialCurrentTasks
    /\ pc = "idle"
    /\ op = "none"
    /\ calls = 0
    /\ workload = EmptyDict
    /\ queue = <<>>
    /\ idx = 1
    /\ assignments_made = 0
    /\ max_assignments = DefaultMaxAssignments
    /\ log = <<>>
    /\ suggested = <<>>
    /\ first = NoFirst
    /\ scored = NotScored
    /\ raised = "none"

\* One call calculate_task_score(issue, intern) with the intern at load c.
ScoreCall(i, k, c) ==
    /\ scored' = [issue |-> i, worker |-> k, load |-> c,
                  value |-> calculate_task_score(ScoreIssues[i],
                      [skills |-> ScoreWorkers[k].skills,
                       preferences |-> ScoreWorkers[k].preferences,
                       max_tasks |-> ScoreWorkers[k].max_tasks,
                       current_tasks |-> c])]
    /\ UNCHANGED <<raised, repo, assignees, extra, current_tasks, pc, op, calls, workload, queue,
                   idx, assignments_made, max_assignments, log, suggested, first>>

ScoreNext ==
    \E i \in 1..Len(ScoreIssues) : \E k \in 1..Len(ScoreWorkers) : \E c \in 0..MaxLoad :
        ScoreCall(i, k, c)

SpecScore == ScoreInit /\ [][ScoreNext]_vars

\* ------------------------------------------------- two runs, the same inputs
\* The outcome add_to_assignees had for issue i in the run kept in first.
OutcomeInFirst(i) ==
    \E k \in 1..Len(first.log) : first.log[k].issue = i /\ first.log[k].result = "assigned"

\* The first run, with free commit outcomes.
PairFirstStart(m) == ~first.done /\ calls = 0 /\ StartAssign(m)

PairFirstStep == ~first.done /\ \E ok \in BOOLEAN : AssignStep(ok)

\* The first run has returned: its outcome is kept and the tracker is put back
\* to what that run started from (every listed issue unassigned again), while
\* the TaskAssigner keeps the loads the run left in memory.
PairRestore ==
    /\ pc = "idle"
    /\ op = "assign"
    /\ ~first.done
    /\ first' = [done |-> TRUE, log |-> log, loads |-> current_tasks,
                 max |-> max_assignments]
    /\ assignees' = [i \in IssueIds |-> {}]
    /\ UNCHANGED <<raised, repo, extra, current_tasks, pc, op, calls, workload, queue, idx,
                   assignments_made, max_assignments, log, suggested, scored>>

\* The second run: the same max_assignments, the same commit outcomes.
PairSecondStart == first.done /\ calls = 1 /\ StartAssign(first.max)

PairSecondStep ==
    /\ first.done
    /\ pc = "assign"
    /\ idx <= Len(queue)
    /\ AssignStep(OutcomeInFirst(queue[idx]))

PairNext ==
    \/ \E m \in MaxAssignmentsValues : PairFirstStart(m)
    \/ PairFirstStep
    \/ PairRestore
    \/ PairSecondStart
    \/ PairSecondStep
    \/ AssignReturn

SpecPair == Init /\ [][PairNext]_vars

\* ------------------------------------- suggest first, then assign, one tracker
\* suggest_assignments is called on a fresh TaskAssigner.
PreviewSuggest == ~first.done /\ calls = 0 /\ StartSuggest

\* suggest_assignments has returned: what it printed is kept to compare.  It
\* committed nothing, so the tracker is what the call started from.
PreviewKeep ==
    /\ pc = "idle"
    /\ op = "suggest"
    /\ ~first.done
    /\ first' = [done |-> TRUE, log |-> suggested, loads |-> current_tasks,
                 max |-> max_assignments]
    /\ UNCHANGED <<raised, repo, assignees, extra, current_tasks, pc, op, calls, workload, queue,
                   idx, assignments_made, max_assignments, log, suggested, scored>>

\* assign_tasks is then called against the same tracker.
PreviewAssign(m) == first.done /\ calls = 1 /\ StartAssign(m)

PreviewNext ==
    \/ PreviewSuggest
    \/ SuggestStep
    \/ SuggestReturn
    \/ PreviewKeep
    \/ \E m \in MaxAssignmentsValues : PreviewAssign(m)
    \/ \E ok \in BOOLEAN : AssignStep(ok)
    \/ AssignReturn

SpecPreview == Init /\ [][PreviewNext]_vars

\* ------------------------------------- two calls, a tracker others change
\* The first call on a fresh TaskAssigner: assign_tasks or suggest_assignments.
ChurnFirstAssign(m) == ~first.done /\ calls = 0 /\ StartAssign(m)

ChurnFirstSuggest == ~first.done /\ calls = 0 /\ StartSuggest

\* After the first call somebody else removes the assignee of open issue i in
\* the tracker.  The loads the TaskAssigner holds in memory at that moment are
\* kept to compare.
Unassign(i) ==
    /\ pc = "idle"
    /\ calls = 1
    /\ ~first.done
    /\ assignees[i] # {}
    /\ assignees' = [assignees EXCEPT ![i] = {}]
    /\ first' = [done |-> TRUE, log |-> log, loads |-> current_tasks,
                 max |-> max_assignments]
    /\ UNCHANGED <<raised, repo, extra, current_tasks, pc, op, calls, workload, queue, idx,
                   assignments_made, max_assignments, log, suggested, scored>>

\* After the first call one of the other open issues assigned to login is closed.
Close(login) ==
    /\ pc = "idle"
    /\ calls = 1
    /\ ~first.done
    /\ extra[login] > 0
    /\ extra' = [extra EXCEPT ![login] = @ - 1]
    /\ first' = [done |-> TRUE, log |-> log, loads |-> current_tasks,
                 max |-> max_assignments]
    /\ UNCHANGED <<raised, repo, assignees, current_tasks, pc, op, calls, workload, queue, idx,
                   assignments_made, max_assignments, log, suggested, scored>>

\* assign_tasks is then called on the same TaskAssigner, with the same limit.
ChurnSecondAssign == first.done /\ calls = 1 /\ StartAssign(first.max)

\* The loop of the first call, with free commit outcomes, and of the second,
\* whose commits succeed.
ChurnFirstStep == ~first.done /\ \E ok \in BOOLEAN : AssignStep(ok)

ChurnSecondStep == first.done /\ AssignStep(TRUE)

ChurnNext ==
    \/ \E m \in MaxAssignmentsValues : ChurnFirstAssign(m)
    \/ ChurnFirstSuggest
    \/ ChurnFirstStep
    \/ ChurnSecondStep
    \/ AssignReturn
    \/ SuggestStep
    \/ SuggestReturn
    \/ \E i \in IssueIds : Unassign(i)
    \/ \E login \in Interns : Close(login)
    \/ ChurnSecondAssign

SpecChurn == Init /\ [][ChurnNext]_vars

\* ------------------------------------------- a tracker that accepts every commit
\* main() calling assign_tasks against a tracker on which add_to_assignees
\* never raises.
GreedyStep == AssignStep(TRUE)

GreedyNext ==
    \/ \E m \in MaxAssignmentsValues : MainAssign(m)
    \/ GreedyStep
    \/ AssignReturn

SpecGreedy == Init /\ [][GreedyNext]_vars

\* ------------------------------------------------- a run that keeps running
\* main() calling assign_tasks: the interpreter keeps executing the loop, so an
\* iteration or the return that can be taken is eventually taken.
LiveStep == \E ok \in BOOLEAN : AssignStep(ok)

LiveNext ==
    \/ \E m \in MaxAssignmentsValues : MainAssign(m)
    \/ LiveStep
    \/ AssignReturn

SpecLive ==
    Init /\ [][LiveNext]_vars /\ WF_vars(LiveStep) /\ WF_vars(AssignReturn)

\* ------------------------------------------------------------ claim helpers
max_tasks(w) == InternConfig[w].max_tasks

\* The loads right after iteration k of the running (or returned) assign_tasks.
LoadsAfter(k) == IF k < Len(log) THEN log[k + 1].before ELSE current_tasks

\* assignments_made right after iteration k.
MadeAfter(k) == IF k < Len(log) THEN log[k + 1].made_before ELSE assignments_made

\* Iterations that attempted a commit.
Attempted(k) == log[k].result \in {"assigned", "failed"}

\* Interns with spare capacity at the given loads.
SpareInterns(loads) == {w \in Interns : loads[w] < max_tasks(w)}

\* Position of an issue in the tracker's listing.
PosInRepo(i) == CHOOSE k \in 1..Len(repo) : repo[k] = i

\* ----------------------------------------------------------------- C1
\* C1 (as claimed): in every state of an assign_tasks run, from the seeding of
\* the loads until the run has returned, every intern has
\* 0 <= current_tasks <= max_tasks.
C1_LoadWithinCapacity ==
    op = "assign" =>
        \A w \in Interns : 0 <= current_tasks[w] /\ current_tasks[w] <= max_tasks(w)

\* ----------------------------------------------------------------- C2
\* C2: within one assign_tasks run no issue gets more than one assignment:
\* add_to_assignees succeeds at most once for it, at most one intern's load is
\* incremented on its behalf, and the issue ends with at most one assignee.
C2_AtMostOneAssignment ==
    op = "assign" =>
        \A i \in IssueIds :
            /\ Cardinality({k \in 1..Len(log) :
                   log[k].issue = i /\ log[k].result = "assigned"}) <= 1
            /\ Cardinality({p \in (1..Len(log)) \X Interns :
                   /\ log[p[1]].issue = i
                   /\ LoadsAfter(p[1])[p[2]] # log[p[1]].before[p[2]]}) <= 1
            /\ Cardinality(assignees[i]) <= 1

\* A run that assigned one issue and went on to handle another.
C2_Witness ==
    /\ op = "assign"
    /\ Len(log) >= 2
    /\ log[1].result = "assigned"
    /\ log[2].result = "assigned"

\* ----------------------------------------------------------------- C3
\* C3: the assignments committed in a run never exceed max_assignments, every
\* committed assignment is counted, no issue is scored once the count has
\* reached max_assignments, and with max_assignments = 0 nothing is scored or
\* committed and every load stays at its seeded value.
C3_BoundedByMaxAssignments ==
    op = "assign" =>
        /\ assignments_made <= max_assignments
        /\ Cardinality({k \in 1..Len(log) : log[k].result = "assigned"}) = assignments_made
        /\ \A k \in 1..Len(log) : log[k].made_before < max_assignments
        /\ max_assignments = 0 =>
              /\ log = <<>>
              /\ current_tasks = SeedLoads(workload)
              /\ \A k \in 1..Len(queue) : assignees[queue[k]] = {}

\* A run that stopped at the limit with issues left unscored.
C3_Witness ==
    /\ op = "assign"
    /\ pc = "idle"
    /\ max_assignments = 1
    /\ assignments_made = 1
    /\ Len(log) < Len(queue)

\* ----------------------------------------------------------------- C4
\* C4: an intern whose load is not below its capacity is never selected and
\* never has its load incremented, however high it would score: every load
\* increment happens on an intern that had spare capacity.
C4_FullInternNeverSelected ==
    op = "assign" =>
        \A k \in 1..Len(log) :
            /\ log[k].intern # None => log[k].before[log[k].intern] < max_tasks(log[k].intern)
            /\ \A w \in Interns :
                  LoadsAfter(k)[w] # log[k].before[w] => log[k].before[w] < max_tasks(w)

\* An issue went to another intern although a full intern scores higher on it.
C4_Witness ==
    /\ op = "assign"
    /\ \E k \in 1..Len(log) : \E w \in Interns :
          /\ log[k].result = "assigned"
          /\ log[k].before[w] >= max_tasks(w)
          /\ ScoreOf[log[k].issue][w][log[k].before[w]] > log[k].score

\* ----------------------------------------------------------------- C5
\* C5: a commit is attempted for an issue exactly when the best score among the
\* interns with spare capacity is above 0; otherwise the issue is skipped: no
\* commit, no load change, no count, the issue stays unassigned, and the run
\* goes on to the next issue (it returns only when the list is exhausted).
C5_AssignedOnlyOnPositiveScore ==
    op = "assign" =>
        /\ \A k \in 1..Len(log) :
              LET e == log[k]
                  positive == \E w \in SpareInterns(e.before) :
                                  ScoreOf[e.issue][w][e.before[w]] > 0
              IN  /\ e.issue = queue[k]
                  /\ Attempted(k) <=> positive
                  /\ Attempted(k) =>
                        /\ e.score > 0
                        /\ \A w \in SpareInterns(e.before) :
                              ScoreOf[e.issue][w][e.before[w]] <= e.score
                  /\ e.result = "skipped" =>
                        /\ LoadsAfter(k) = e.before
                        /\ MadeAfter(k) = e.made_before
                        /\ assignees[e.issue] = {}
        /\ (pc = "idle" /\ log # <<>> /\ log[Len(log)].result = "skipped")
              => Len(log) = Len(queue)

\* An issue nobody scores on was skipped although capacity was free, and the
\* run went on to the next issue.
C5_Witness ==
    /\ op = "assign"
    /\ Len(log) >= 2
    /\ log[1].result = "skipped"
    /\ log[1].score = 0
    /\ SpareInterns(log[1].before) # {}

\* ----------------------------------------------------------------- C6
\* C6: when add_to_assignees fails, no assignment is counted for the issue,
\* every load is what it was before the issue was handled, the issue is not
\* tried with another intern, and the run continues with the next issue.
C6_FailedCommitLeavesNoTrace ==
    op = "assign" =>
        \A k \in 1..Len(log) :
            log[k].result = "failed" =>
                /\ LoadsAfter(k) = log[k].before
                /\ MadeAfter(k) = log[k].made_before
                /\ assignees[log[k].issue] = {}
                /\ Cardinality({j \in 1..Len(log) : log[j].issue = log[k].issue}) = 1
                /\ (pc = "idle" /\ k = Len(log)) => Len(log) = Len(queue)

\* A commit failed and the next issue was assigned all the same.
C6_Witness ==
    /\ op = "assign"
    /\ Len(log) >= 2
    /\ log[1].result = "failed"
    /\ log[2].result = "assigned"

\* ----------------------------------------------------------------- C7
\* The rank of the claim: the index of the issue's priority label in
\* [high-priority, medium-priority, low-priority], 3 when it has none.
Rank(i) ==
    LET names == {IssueCatalog[i].labels[k] : k \in 1..Len(IssueCatalog[i].labels)}
    IN  IF "high-priority" \in names THEN 0
        ELSE IF "medium-priority" \in names THEN 1
        ELSE IF "low-priority" \in names THEN 2
        ELSE 3

\* C7: assign_tasks iterates exactly the fetched unassigned issues in
\* non-decreasing rank, issues of equal rank in their input order, and handles
\* (hence commits) them in that order.
C7_PriorityOrder ==
    op = "assign" =>
        /\ \A j, k \in 1..Len(queue) :
              j < k => /\ Rank(queue[j]) <= Rank(queue[k])
                       /\ Rank(queue[j]) = Rank(queue[k])
                             => PosInRepo(queue[j]) < PosInRepo(queue[k])
        /\ {queue[k] : k \in 1..Len(queue)} =
              {repo[k] : k \in {n \in 1..Len(repo) :
                  \/ assignees[repo[n]] = {}
                  \/ \E j \in 1..Len(log) :
                        log[j].issue = repo[n] /\ log[j].result = "assigned"}}
        /\ \A k \in 1..Len(log) : log[k].issue = queue[k]
        /\ \A j, k \in 1..Len(log) : j < k => Rank(log[j].issue) <= Rank(log[k].issue)

\* Two issues were committed in the opposite of their listing order.
C7_Witness ==
    /\ op = "assign"
    /\ Len(log) = 2
    /\ log[1].result = "assigned"
    /\ log[2].result = "assigned"
    /\ PosInRepo(log[1].issue) > PosInRepo(log[2].issue)

\* ----------------------------------------------------------------- C8
\* The score of the claim, in half points: 2.0 per skill of the worker that is
\* an item tag or a substring of the lower-cased body (each skill once), 1.5
\* per preference that is an item tag, the priority bonus, the first-task bonus.
ClaimedScore(issue, worker, load) ==
    LET tags == {Lower(issue.labels[j]) : j \in 1..Len(issue.labels)}
        text == IF issue.has_body THEN Lower(issue.body) ELSE ""
        skills == {worker.skills[j] : j \in 1..Len(worker.skills)}
        preferences == {worker.preferences[j] : j \in 1..Len(worker.preferences)}
    IN  4 * Cardinality({x \in skills : x \in tags \/ StrContains(text, x)})
        + 3 * Cardinality({x \in preferences : x \in tags})
        + (IF "high-priority" \in tags THEN 2
           ELSE IF "medium-priority" \in tags THEN 1 ELSE 0)
        + (IF "good first issue" \in tags /\ load = 0 THEN 2 ELSE 0)

\* The latest direct call scored the scenario's item I1 (the catalogue's first
\* issue) for the named worker at load 0.
ScoredScenario(name) ==
    /\ scored # NotScored
    /\ ScoreIssues[scored.issue].title = "Intro lecture"
    /\ ScoreWorkers[scored.worker].name = name
    /\ scored.load = 0

\* The general part of C8: calculate_task_score returns the claimed sum.
ScoreIsClaimedSum ==
    scored # NotScored =>
        scored.value = ClaimedScore(ScoreIssues[scored.issue],
                                    ScoreWorkers[scored.worker], scored.load)

\* C8 (as claimed): calculate_task_score is the claimed sum, and in the
\* scenario item I1 scores 6.5 for worker A and 0 for worker B.
C8_ScoreFormulaOriginal ==
    /\ ScoreIsClaimedSum
    /\ ScoredScenario("A") => scored.value = 13
    /\ ScoredScenario("B") => scored.value = 0

\* C8 (amended): calculate_task_score is the claimed sum, and in the scenario
\* item I1 scores 6.5 for worker A and 1.0 for worker B, who gets the
\* high-priority bonus like every worker.
C8_ScoreFormula ==
    /\ ScoreIsClaimedSum
    /\ ScoredScenario("A") => scored.value = 13
    /\ ScoredScenario("B") => scored.value = 2

\* Worker B was scored on item I1 and got the priority bonus only.
C8_Witness ==
    /\ ScoredScenario("B")
    /\ scored.value = HighPriorityPoints

\* ----------------------------------------------------------------- C9
\* The (issue, intern, score) assignments a log commits, in order.
RECURSIVE AssignmentsOf(_)
AssignmentsOf(lg) ==
    IF lg = <<>> THEN <<>>
    ELSE (IF Head(lg).result = "assigned"
          THEN <<<<Head(lg).issue, Head(lg).intern, Head(lg).score>>>> ELSE <<>>)
         \o AssignmentsOf(Tail(lg))

\* C9: a second assign_tasks run given the unassigned issues, the intern
\* directory, the tracker loads, the max_assignments and the commit outcomes of
\* the first makes the same assignments in the same order and ends with the
\* same loads, whatever the first run left in memory.
C9_SameInputsSameAssignments ==
    (first.done /\ calls = 2 /\ op = "assign" /\ pc = "idle") =>
        /\ AssignmentsOf(log) = AssignmentsOf(first.log)
        /\ current_tasks = first.loads
        /\ log = first.log

\* The second run has returned after both runs assigned an issue to an intern
\* the tracker counted no issue for, so that the loads the first run left in
\* memory differ from the loads the second run is seeded with.
C9_Witness ==
    /\ first.done
    /\ calls = 2
    /\ op = "assign"
    /\ pc = "idle"
    /\ AssignmentsOf(log) # <<>>
    /\ first.loads # SeedLoads(workload)

\* ----------------------------------------------------------------- C10
\* A step of a suggest_assignments call.
InSuggest == op' = "suggest" /\ (pc = "suggest" \/ pc' = "suggest")

\* C10 (as claimed): suggest_assignments writes no load: every step of the call
\* leaves each intern's in-memory load as it was before the call.
C10_SuggestWritesNoLoad ==
    [][InSuggest => current_tasks' = current_tasks]_vars

\* C10 (amended): suggest_assignments never changes the ledger it seeds: the
\* only value it writes to an intern's load is the count fetched at the start
\* of the call, written at every issue it handles; starting and returning
\* write nothing, so with no unassigned issue the loads are untouched.
C10_SuggestOnlySeeds ==
    [][InSuggest =>
        IF pc = "suggest" /\ pc' = "suggest"
        THEN current_tasks' = SeedLoads(workload)
        ELSE current_tasks' = current_tasks]_vars

\* suggest_assignments handled an issue and left loads that differ from the
\* loads in memory before the call.
C10_Witness ==
    /\ op = "suggest"
    /\ suggested # <<>>
    /\ current_tasks # suggested[1].before
    /\ current_tasks = SeedLoads(workload)

\* ----------------------------------------------------------------- C11
\* What the kept suggest_assignments call printed for issue i.
SuggestionFor(i) ==
    first.log[CHOOSE k \in 1..Len(first.log) : first.log[k].issue = i]

\* C11 (as claimed): suggest_assignments and assign_tasks run against the same
\* tracker rank alike: for every issue assign_tasks handles, the first
\* suggestion printed for it is the intern assign_tasks chooses, and an issue
\* assign_tasks skips has no suggestion.
C11_SuggestRanksAsAssign ==
    (first.done /\ op = "assign") =>
        \A k \in 1..Len(log) :
            LET s == SuggestionFor(log[k].issue)
            IN  /\ Attempted(k) =>
                      /\ s.candidates # <<>>
                      /\ s.candidates[1].intern = log[k].intern
                /\ log[k].result = "skipped" => s.candidates = <<>>

\* ----------------------------------------------------------------- C12
\* The issues the kept suggest_assignments call visited, in its order.
SuggestOrder == [k \in 1..Len(first.log) |-> first.log[k].issue]

\* C12 (as claimed): suggest_assignments visits the unassigned issues in the
\* sequence in which assign_tasks, run against the same tracker, visits them:
\* non-decreasing rank, issues of equal rank in their listing order.
C12_SuggestVisitsInPriorityOrder ==
    (first.done /\ op = "assign") =>
        /\ SuggestOrder = queue
        /\ \A j, k \in 1..Len(SuggestOrder) :
              j < k => Rank(SuggestOrder[j]) <= Rank(SuggestOrder[k])

\* ----------------------------------------------------------------- C13
\* C13: suggest_assignments never commits: no step of the call gives any issue
\* an assignee, so the tracker's unassigned issues and its per-intern counts
\* are after every step of the call what they were before it.
C13_SuggestNeverCommits ==
    [][InSuggest =>
        /\ assignees' = assignees
        /\ get_unassigned_issues(repo', assignees') = get_unassigned_issues(repo, assignees)
        /\ get_intern_workload(repo', assignees', extra')
              = get_intern_workload(repo, assignees, extra)]_vars

\* suggest_assignments, called after an assign_tasks run that assigned an
\* issue, has returned having printed candidates for an issue that is still
\* unassigned.
C13_Witness ==
    /\ op = "suggest"
    /\ pc = "idle"
    /\ calls = 2
    /\ \E i \in IssueIds : assignees[i] # {}
    /\ \E k \in 1..Len(suggested) :
          /\ suggested[k].candidates # <<>>
          /\ assignees[suggested[k].issue] = {}

\* ----------------------------------------------------------------- C14
\* C14: over successive assign_tasks runs on one tracker that nobody else
\* changes, an issue that has an assignee keeps exactly that assignee, the
\* issues a run fetches as unassigned have none, and so no issue ever has two.
C14_NoReassignAcrossRuns ==
    [][/\ \A i \in IssueIds : assignees[i] # {} => assignees'[i] = assignees[i]
       /\ (pc = "idle" /\ op' = "assign" /\ calls' = calls + 1) =>
              \A k \in 1..Len(queue') : assignees[queue'[k]] = {}
       /\ \A i \in IssueIds : Cardinality(assignees'[i]) <= 1]_vars

\* A second assign_tasks run assigned an issue while an issue assigned by the
\* run before it was left out of its list.
C14_Witness ==
    /\ op = "assign"
    /\ calls = 2
    /\ \E k \in 1..Len(log) : log[k].result = "assigned"
    /\ \E n \in 1..Len(repo) : assignees[repo[n]] # {} /\ ~InList(repo[n], queue)

\* ----------------------------------------------------------------- C15
\* The count the tracker holds for every intern.
TrackerCount == [w \in Interns |-> extra[w] + AssignedCount(repo, assignees, w)]

\* C15: every assign_tasks run starts from freshly seeded loads: the step that
\* starts a run leaves every intern's load at the count the tracker holds then
\* (0 when it holds none), and the first issue of the run is scored with these
\* loads, whatever earlier calls left in memory.
C15_FreshSeedEveryRun ==
    [][/\ (pc = "idle" /\ op' = "assign" /\ calls' = calls + 1) =>
              current_tasks' = TrackerCount
       /\ (pc = "assign" /\ idx = 1 /\ idx' = 2) =>
              /\ current_tasks = TrackerCount
              /\ log'[1].before = TrackerCount]_vars

\* A second call, assign_tasks, has started after the tracker was changed by
\* somebody else: the loads the call before it left in memory differ from the
\* tracker's counts, and the run scored its first issue with the counts.
C15_Witness ==
    /\ first.done
    /\ calls = 2
    /\ op = "assign"
    /\ log # <<>>
    /\ first.loads # log[1].before
    /\ \E w \in Interns : first.loads[w] > 0 /\ log[1].before[w] = 0

\* ----------------------------------------------------------------- C17
\* C17: when the fetch of the loads or of the unassigned issues fails,
\* assign_tasks ends in an error, and the run attempts no commit: it handles
\* no issue, counts no assignment and gives no issue an assignee.
C17_FetchErrorIsFatal ==
    raised # "none" =>
        /\ pc = "error"
        /\ op = "assign"
        /\ log = <<>>
        /\ assignments_made = 0
        /\ \A i \in IssueIds : assignees[i] = {}

\* The fetch of the unassigned issues failed, after the interns were seeded,
\* with an unassigned issue in the tracker that an intern scores on.
C17_Witness ==
    /\ raised = "issues"
    /\ pc = "error"
    /\ current_tasks # InitialCurrentTasks
    /\ \E n \in 1..Len(repo) : ShouldAssign(FindBest(repo[n], current_tasks))

\* ----------------------------------------------------------------- C18
\* Every intern is seeded at or above its capacity.
AllFullAtSeed == \A w \in Interns : SeedLoads(workload)[w] >= max_tasks(w)

\* C18: when every intern is full at seeding, every issue the run handles is
\* skipped with no intern chosen: no commit is attempted, no assignment is
\* counted, the loads stay as seeded, the issues stay unassigned, and the run
\* goes through the whole list and returns normally.
C18_AllFullAllSkipped ==
    (op = "assign" /\ AllFullAtSeed) =>
        /\ \A k \in 1..Len(log) : log[k].result = "skipped" /\ log[k].intern = None
        /\ assignments_made = 0
        /\ current_tasks = SeedLoads(workload)
        /\ \A k \in 1..Len(queue) : assignees[queue[k]] = {}
        /\ pc \in {"assign", "idle"}
        /\ (pc = "idle" /\ max_assignments > 0) => Len(log) = Len(queue)

\* A run with every intern full has returned after skipping two issues, one
\* of which an intern scores on.
C18_Witness ==
    /\ op = "assign"
    /\ pc = "idle"
    /\ AllFullAtSeed
    /\ Len(log) = 2
    /\ \E w \in Interns : ScoreOf[log[1].issue][w][current_tasks[w]] > 0

\* ----------------------------------------------------------------- C19
\* The catalogue issues tagged "good first issue" (tags are lower-cased).
GoodFirstIssues ==
    {i \in IssueIds : InList("good first issue", issue_labels(IssueCatalog[i]))}

\* What intern w scores on issue i for its skills and preferences, computed once.
AffinityOf ==
    [i \in IssueIds |-> [w \in Interns |->
        SkillScore(IssueCatalog[i], InternDict(w, 0))
        + PreferenceScore(IssueCatalog[i], InternDict(w, 0))] @@ <<>>] @@ <<>>

\* Position of an intern in the directory.
PosInDirectory(w) == CHOOSE k \in 1..Len(InternIds) : InternIds[k] = w

\* C19: for an issue tagged "good first issue" and two interns with spare
\* capacity and equal skill and preference scores, the one at load 0 scores
\* 1.0 (two half points) more than the one at a load above 0, the loaded one
\* is not selected, and when the two are the only interns with spare capacity
\* the one at load 0 is selected, whatever their order in the directory.
C19_FirstTaskBonusWins ==
    op = "assign" =>
        \A k \in 1..Len(log) : \A d, e \in SpareInterns(log[k].before) :
            LET i == log[k].issue
                before == log[k].before
            IN  (/\ i \in GoodFirstIssues
                 /\ AffinityOf[i][d] = AffinityOf[i][e]
                 /\ before[d] = 0
                 /\ before[e] > 0) =>
                    /\ ScoreOf[i][d][before[d]] = ScoreOf[i][e][before[e]] + 2
                    /\ log[k].intern # e
                    /\ SpareInterns(before) = {d, e} => log[k].intern = d

\* A good first issue went to an intern at load 0 although an intern that
\* scores the same on skills and preferences, has spare capacity and a load
\* above 0 comes before it in the directory.
C19_Witness ==
    /\ op = "assign"
    /\ \E k \in 1..Len(log) : \E e \in SpareInterns(log[k].before) :
          LET d == log[k].intern
          IN  /\ log[k].result = "assigned"
              /\ log[k].issue \in GoodFirstIssues
              /\ log[k].before[d] = 0
              /\ log[k].before[e] > 0
              /\ AffinityOf[log[k].issue][d] = AffinityOf[log[k].issue][e]
              /\ PosInDirectory(e) < PosInDirectory(d)

\* ----------------------------------------------------------------- C20
\* C20: in every state of a call, calculate_task_score is at least 0 for every
\* issue of the call and every intern at the load the intern has in that state,
\* and so is every score a run selected on or suggest_assignments printed.
C20_ScoreNonNegative ==
    /\ \A n \in 1..Len(queue) : \A w \in Interns :
          ScoreOf[queue[n]][w][current_tasks[w]] >= 0
    /\ \A k \in 1..Len(log) : log[k].intern # None => log[k].score >= 0
    /\ \A k \in 1..Len(suggested) : \A n \in 1..Len(suggested[k].candidates) :
          suggested[k].candidates[n].score >= 0

\* During a run that has assigned an issue, an intern whose load the run
\* raised scores exactly 0 on an issue of the run.
C20_Witness ==
    /\ op = "assign"
    /\ \E k \in 1..Len(log) : \E n \in 1..Len(queue) :
          LET w == log[k].intern
          IN  /\ log[k].result = "assigned"
              /\ current_tasks[w] > log[k].before[w]
              /\ ScoreOf[queue[n]][w][current_tasks[w]] = 0

\* ----------------------------------------------------------------- C21
\* C21: for every issue that gets an intern, the selected intern has spare
\* capacity, its score is the greatest among the interns with spare capacity
\* at that moment, and among the interns that share this greatest score it is
\* the first in the directory's order.
C21_BestScoreFirstSeen ==
    op = "assign" =>
        \A k \in 1..Len(log) :
            Attempted(k) =>
                LET e == log[k]
                    spare == SpareInterns(e.before)
                IN  /\ e.intern \in spare
                    /\ e.score = ScoreOf[e.issue][e.intern][e.before[e.intern]]
                    /\ \A w \in spare :
                          /\ ScoreOf[e.issue][w][e.before[w]] <= e.score
                          /\ ScoreOf[e.issue][w][e.before[w]] = e.score
                                => PosInDirectory(e.intern) <= PosInDirectory(w)

\* An issue was assigned to an intern while a later intern of the directory,
\* with spare capacity, scored the same, and an earlier one scored less.
C21_Witness ==
    /\ op = "assign"
    /\ \E k \in 1..Len(log) : \E w, v \in SpareInterns(log[k].before) :
          /\ log[k].result = "assigned"
          /\ PosInDirectory(log[k].intern) < PosInDirectory(w)
          /\ ScoreOf[log[k].issue][w][log[k].before[w]] = log[k].score
          /\ PosInDirectory(v) < PosInDirectory(log[k].intern)
          /\ ScoreOf[log[k].issue][v][log[k].before[v]] < log[k].score

\* ----------------------------------------------------------------- C22
\* The state of issue i in the run whose log is lg: "unassigned" until the
\* loop has handled it (scored it against the interns), then what became of
\* it: "assigned", "skipped", or "failed" when its commit raised, which leaves
\* it without an assignee like a skipped one.
ItemState(lg, i) ==
    IF \E k \in 1..Len(lg) : lg[k].issue = i
    THEN lg[CHOOSE k \in 1..Len(lg) : lg[k].issue = i].result
    ELSE "unassigned"

\* C22: within a run every issue only moves forward: it is scored at most
\* once, and once it has been scored and has become assigned or skipped (or
\* its commit has failed) it keeps that state and its assignees: it is never
\* scored or committed again.
C22_ItemsOnlyMoveForward ==
    [][(op = "assign" /\ op' = "assign") =>
          \A i \in IssueIds :
              /\ Cardinality({k \in 1..Len(log') : log'[k].issue = i}) <= 1
              /\ ItemState(log, i) # "unassigned" =>
                    /\ ItemState(log', i) = ItemState(log, i)
                    /\ assignees'[i] = assignees[i]
              /\ ItemState(log', i) = "assigned" <=> assignees'[i] # {}]_vars

\* A run has returned after assigning one issue and skipping the next.
C22_Witness ==
    /\ op = "assign"
    /\ pc = "idle"
    /\ Len(log) = 2
    /\ ItemState(log, log[1].issue) = "assigned"
    /\ ItemState(log, log[2].issue) = "skipped"

\* ----------------------------------------------------------------- C23
\* What an assignment f of the issues of q (f[k] an intern, or None to leave
\* q[k] unassigned) is worth when made in the order of q from the given loads:
\* whether it respects capacity and gives an issue only to an intern that
\* scores above 0 on it, the sum of the scores, the number of issues assigned.
RECURSIVE AltEval(_, _, _, _)
AltEval(q, f, k, loads) ==
    IF k > Len(q) THEN [ok |-> TRUE, total |-> 0, count |-> 0]
    ELSE IF f[k] = None THEN AltEval(q, f, k + 1, loads)
    ELSE LET w == f[k]
             score == ScoreOf[q[k]][w][loads[w]]
             rest == AltEval(q, f, k + 1, RecordLoad(loads, w))
         IN  [ok |-> rest.ok /\ loads[w] < max_tasks(w) /\ score > 0,
              total |-> rest.total + score,
              count |-> rest.count + 1]

\* The assignments of the run's issues that respect capacity and the limit.
Alternatives ==
    {r \in {AltEval(queue, f, 1, SeedLoads(workload)) :
               f \in [1..Len(queue) -> Interns \cup {None}]} :
        r.ok /\ r.count <= max_assignments}

\* The sum of the scores of the issues the run assigned, and their number.
RunTotal == SeqSum([k \in 1..Len(log) |->
                IF log[k].result = "assigned" THEN log[k].score ELSE 0])

RunCount == Cardinality({k \in 1..Len(log) : log[k].result = "assigned"})

\* C23: what a returned run assigned is itself an assignment that respects
\* capacity, so it never beats the best of them; the witness below is the
\* input of the claim, on which the run stays strictly under another one.
C23_GreedyNeverAboveBest ==
    (op = "assign" /\ pc = "idle") =>
        \E r \in Alternatives : r.total = RunTotal /\ r.count = RunCount

\* The run gave an earlier issue to an intern at its last free place, then
\* skipped a later issue on which only that intern scores above 0, and another
\* assignment respecting capacity has a greater total score and assigns more
\* issues.
C23_Witness ==
    /\ op = "assign"
    /\ pc = "idle"
    /\ Len(log) = 2
    /\ log[1].result = "assigned"
    /\ log[1].before[log[1].intern] + 1 = max_tasks(log[1].intern)
    /\ log[2].result = "skipped"
    /\ {w \in Interns : ScoreOf[log[2].issue][w][log[1].before[w]] > 0} = {log[1].intern}
    /\ \E r \in Alternatives : r.total > RunTotal /\ r.count > RunCount

\* ----------------------------------------------------------------- C24
\* C24: for every issue suggest_assignments prints at most 3 candidates, each
\* an intern with spare capacity at the fetched loads, with the score
\* calculate_task_score gives it, in non-increasing score order, equal scores
\* in directory order; no intern is printed twice, and as many are printed as
\* there are interns with spare capacity, up to 3.
C24_SuggestTopCandidates ==
    op = "suggest" =>
        \A k \in 1..Len(suggested) :
            LET c == suggested[k].candidates
                i == suggested[k].issue
                loads == SeedLoads(workload)
                spare == Cardinality(SpareInterns(loads))
            IN  /\ Len(c) <= 3
                /\ Len(c) = IF spare < 3 THEN spare ELSE 3
                /\ \A n \in 1..Len(c) :
                      /\ c[n].intern \in SpareInterns(loads)
                      /\ c[n].score = ScoreOf[i][c[n].intern][loads[c[n].intern]]
                /\ \A m, n \in 1..Len(c) :
                      m < n =>
                          /\ c[m].intern # c[n].intern
                          /\ c[m].score >= c[n].score
                          /\ c[m].score = c[n].score =>
                                PosInDirectory(c[m].intern) < PosInDirectory(c[n].intern)

\* suggest_assignments printed two candidates for an issue, one intern being
\* full, the better-scoring one first although it is later in the directory.
C24_Witness ==
    /\ op = "suggest"
    /\ \E k \in 1..Len(suggested) :
          LET c == suggested[k].candidates
          IN  /\ Len(c) = 2
              /\ c[1].score > c[2].score
              /\ PosInDirectory(c[1].intern) > PosInDirectory(c[2].intern)

\* ----------------------------------------------------------------- C25
\* The issues the run has committed to intern w so far.
CommittedTo(w) ==
    Cardinality({k \in 1..Len(log) : log[k].result = "assigned" /\ log[k].intern = w})

\* C25: throughout an assign_tasks run every intern's load in memory is its
\* seeded load plus the number of issues the run has committed to it so far,
\* and that is the count the tracker holds for it at that moment.
C25_LoadIsSeedPlusCommits ==
    op = "assign" =>
        \A w \in Interns :
            /\ current_tasks[w] = SeedLoads(workload)[w] + CommittedTo(w)
            /\ current_tasks[w] = TrackerCount[w]

\* A run in which a commit failed has committed an issue to an intern the
\* tracker already counted an issue for.
C25_Witness ==
    /\ op = "assign"
    /\ \E w \in Interns :
          /\ SeedLoads(workload)[w] > 0
          /\ CommittedTo(w) >= 1
    /\ \E k \in 1..Len(log) : log[k].result = "failed"

\* ----------------------------------------------------------------- C26
\* The priority bonus calculate_task_score gives every catalogue issue,
\* computed once.
BonusOf == [i \in IssueIds |-> PriorityBonus(IssueCatalog[i])] @@ <<>>

\* C26 (as claimed): the tier that orders the issues of a run agrees with the
\* tier that scores them, whatever the letter case of the labels: an issue
\* that gets the high-priority bonus has sort key 0, one that gets the
\* medium-priority bonus has sort key 1.
C26_RankAgreesWithBonus ==
    op = "assign" =>
        \A k \in 1..Len(queue) :
            /\ BonusOf[queue[k]] = HighPriorityPoints => KeyOf[queue[k]] = 0
            /\ BonusOf[queue[k]] = MediumPriorityPoints => KeyOf[queue[k]] = 1

\* ----------------------------------------------------------------- C27
\* max(0, max_tasks - seeded load) of intern w in the current run.
RemainingAtSeed(w) ==
    IF SeedLoads(workload)[w] >= max_tasks(w) THEN 0
    ELSE max_tasks(w) - SeedLoads(workload)[w]

\* C27: in one run every intern receives at most max(0, max_tasks - seeded
\* load) issues; an intern seeded at or above its capacity is never selected,
\* receives none, and keeps its seeded load.
C27_AtMostRemainingCapacity ==
    op = "assign" =>
        \A w \in Interns :
            /\ CommittedTo(w) <= RemainingAtSeed(w)
            /\ RemainingAtSeed(w) = 0 =>
                  /\ \A k \in 1..Len(log) : log[k].intern # w
                  /\ current_tasks[w] = SeedLoads(workload)[w]

\* One intern used up its remaining capacity and then lost an issue it scores
\* best on, while another intern was seeded above its capacity.
C27_Witness ==
    /\ op = "assign"
    /\ Len(log) = 2
    /\ \E w, v \in Interns :
          /\ RemainingAtSeed(w) > 0
          /\ CommittedTo(w) = RemainingAtSeed(w)
          /\ log[2].intern # w
          /\ \A u \in Interns \ {w} :
                ScoreOf[log[2].issue][w][current_tasks[w]]
                    > ScoreOf[log[2].issue][u][log[2].before[u]]
          /\ SeedLoads(workload)[v] > max_tasks(v)

\* ----------------------------------------------------------------- C28
\* The issues the run had committed to intern w before iteration k.
CommittedBefore(w, k) ==
    Cardinality({j \in 1..(k - 1) : log[j].result = "assigned" /\ log[j].intern = w})

\* The score of intern w at iteration k when the first-task bonus follows the
\* load as the run has updated it: seeded load plus commits so far.
InRunScore(w, k) ==
    AffinityOf[log[k].issue][w] + BonusOf[log[k].issue]
        + (IF /\ log[k].issue \in GoodFirstIssues
              /\ SeedLoads(workload)[w] + CommittedBefore(w, k) = 0
           THEN 2 ELSE 0)

\* C28: the first-task bonus follows the load as updated inside the run: the
\* intern selected for an issue is selected on a score that has the bonus only
\* if its seeded load is 0 and the run has committed nothing to it yet, no
\* intern with a free place had a greater such score, and a failed commit,
\* which commits nothing, leaves the bonus in place.
C28_BonusFollowsInRunLoad ==
    op = "assign" =>
        \A k \in 1..Len(log) :
            Attempted(k) =>
                /\ log[k].score = InRunScore(log[k].intern, k)
                /\ \A w \in Interns :
                      SeedLoads(workload)[w] + CommittedBefore(w, k) < max_tasks(w)
                          => InRunScore(w, k) <= log[k].score

\* An intern seeded at load 0 received the first issue of the run, and the
\* good first issue that followed went to a later intern of the directory, at
\* load 0, that scores the same on skills and preferences.
C28_Witness ==
    /\ op = "assign"
    /\ Len(log) = 2
    /\ log[1].result = "assigned"
    /\ log[2].result = "assigned"
    /\ log[2].issue \in GoodFirstIssues
    /\ SeedLoads(workload)[log[1].intern] = 0
    /\ SeedLoads(workload)[log[2].intern] = 0
    /\ PosInDirectory(log[1].intern) < PosInDirectory(log[2].intern)
    /\ AffinityOf[log[2].issue][log[1].intern] = AffinityOf[log[2].issue][log[2].intern]

\* ----------------------------------------------------------------- C29
\* The commits the run has attempted so far.
AttemptCount == Cardinality({k \in 1..Len(log) : Attempted(k)})

\* C29: a failed commit does not consume the limit: assignments_made counts
\* the successful commits only, each iteration raises it by one exactly when
\* its commit succeeded, and the run stops before the end of its list only
\* when the successful commits have reached max_assignments, however many
\* commits failed.
C29_FailedCommitNotCounted ==
    op = "assign" =>
        /\ assignments_made = RunCount
        /\ \A k \in 1..Len(log) :
              MadeAfter(k) = log[k].made_before
                                + (IF log[k].result = "assigned" THEN 1 ELSE 0)
        /\ (pc = "idle" /\ Len(log) < Len(queue)) => RunCount = max_assignments

\* With max_assignments = 1 a commit failed and the run went on to make its
\* one assignment: two commit attempts, more than max_assignments.
C29_Witness ==
    /\ op = "assign"
    /\ max_assignments = 1
    /\ Len(log) = 2
    /\ log[1].result = "failed"
    /\ log[2].result = "assigned"
    /\ assignments_made = max_assignments
    /\ AttemptCount > max_assignments

\* ----------------------------------------------------------------- C30
\* C30: every assign_tasks run terminates, whichever commits succeed or fail:
\* the loop handles no more issues than the list holds, each at most once and
\* with at most one commit attempt, and a run that is in its loop eventually
\* returns.
C30_RunTerminates ==
    /\ [](/\ Len(log) <= Len(queue)
          /\ \A i \in IssueIds : Cardinality({k \in 1..Len(log) : log[k].issue = i}) <= 1
          /\ AttemptCount <= Len(queue))
    /\ (pc = "assign" ~> pc = "idle")

\* A run has returned after a failed and a successful commit.
C30_Witness ==
    /\ op = "assign"
    /\ pc = "idle"
    /\ Len(log) = 2
    /\ Len(queue) = 2
    /\ log[1].result = "assigned"
    /\ log[2].result = "failed"

====
